---- MODULE Spec2Model ----
(***************************************************************************)
(* Model of owl/camel/toolkits/elasticsearch_toolkit.py:                   *)
(* class ElasticsearchToolkit, its constructor, its four forwarding        *)
(* operations and get_tools.  The Elasticsearch client, os.environ and the *)
(* logger are collaborators: the client's answer to a call is a            *)
(* nondeterministic outcome (a response mapping or a raised exception).    *)
(***************************************************************************)
EXTENDS Integers, Sequences, FiniteSets, TLC

(* ----------------------------- bounds --------------------------------- *)

\* longest args tuple of an exception raised by the client
MaxExcArgs == 1

(* ------------------------- Python values ------------------------------ *)

None == [t |-> "None"]
PyStr(s) == [t |-> "str", v |-> s]
PyList(xs) == [t |-> "list", v |-> xs]

\* truth value of an object, as the operator `or` tests it
Truthy(x) ==
    IF x.t = "None" THEN FALSE
    ELSE IF x.t = "str" THEN x.v # ""
    ELSE x.v # <<>>

\* a or b
Or(a, b) == IF Truthy(a) THEN a ELSE b

\* a function outcome: a returned value or a propagating exception
Return(v) == [kind |-> "return", value |-> v]
Raise(e) == [kind |-> "raise", exc |-> e]

(* --------------------------- exceptions ------------------------------- *)

\* classes derived from Exception, and classes derived from BaseException only
ExceptionClasses == {"Exception"}
BaseOnlyClasses == {"KeyboardInterrupt"}

Messages == {"timeout"}

ArgTuples == UNION {[1..n -> Messages] : n \in 0..MaxExcArgs}

Exceptions ==
    {[cls |-> c, args |-> a] : c \in ExceptionClasses, a \in ArgTuples}
    \cup {[cls |-> c, args |-> <<>>] : c \in BaseOnlyClasses}

\* what `except Exception` matches
IsException(e) == e.cls \in ExceptionClasses

RECURSIVE JoinRepr(_)
JoinRepr(xs) ==
    IF Len(xs) = 0 THEN ""
    ELSE IF Len(xs) = 1 THEN "'" \o xs[1] \o "'"
    ELSE "'" \o xs[1] \o "', " \o JoinRepr(Tail(xs))

\* str(e) of BaseException: "" without args, the argument itself for one
\* (string) argument, the repr of the args tuple otherwise
str(e) ==
    IF Len(e.args) = 0 THEN ""
    ELSE IF Len(e.args) = 1 THEN e.args[1]
    ELSE "(" \o JoinRepr(e.args) \o ")"

(* --------------------------- environment ------------------------------ *)

EnvKeys == {"ELASTICSEARCH_HOST", "ELASTICSEARCH_USERNAME", "ELASTICSEARCH_PASSWORD"}

EnvValue(k) ==
    IF k = "ELASTICSEARCH_HOST" THEN PyStr("http://e:9200")
    ELSE IF k = "ELASTICSEARCH_USERNAME" THEN PyStr("envuser")
    ELSE PyStr("envpass")

\* None stands for a variable that is not set
Environs == {f \in [EnvKeys -> {None} \cup {EnvValue(k) : k \in EnvKeys}] :
                \A k \in EnvKeys : f[k] \in {None, EnvValue(k)}}

\* os.getenv(key, default)
getenv(env, key, default) == IF env[key] = None THEN default ELSE env[key]

(* --------------------------- constructor ------------------------------ *)

\* variant: the built-in URL spelled with the plain-http scheme
DefaultHost_http == PyStr("http://localhost:9200")

DefaultHost == PyStr("https://localhost:9200")

HostsArgs == {None, PyList(<<>>), PyList(<<PyStr("http://a:9200")>>)}
UsernameArgs == {None, PyStr(""), PyStr("u")}
PasswordArgs == {None, PyStr(""), PyStr("p")}
CtorArgs == [hosts : HostsArgs, username : UsernameArgs, password : PasswordArgs]

\* Elasticsearch(hosts, http_auth=(username, password))
Elasticsearch(h, auth) == [hosts |-> h, http_auth |-> auth]

\* variant: the environment variable wins over the constructor argument
ElasticsearchToolkit_envfirst(a, env) ==
    LET h == Or(PyList(<<getenv(env, "ELASTICSEARCH_HOST", DefaultHost)>>), a.hosts)
        u == Or(getenv(env, "ELASTICSEARCH_USERNAME", None), a.username)
        p == Or(getenv(env, "ELASTICSEARCH_PASSWORD", None), a.password)
    IN [hosts |-> h, username |-> u, password |-> p,
        client |-> Elasticsearch(h, <<u, p>>)]

\* variant: the client handle is created from the raw arguments, before the
\* fields are resolved
ElasticsearchToolkit_rawclient(a, env) ==
    LET h == Or(a.hosts, PyList(<<getenv(env, "ELASTICSEARCH_HOST", DefaultHost)>>))
        u == Or(a.username, getenv(env, "ELASTICSEARCH_USERNAME", None))
        p == Or(a.password, getenv(env, "ELASTICSEARCH_PASSWORD", None))
    IN [hosts |-> h, username |-> u, password |-> p,
        client |-> Elasticsearch(a.hosts, <<a.username, a.password>>)]

\* ElasticsearchToolkit.__init__: the fields of the new instance
ElasticsearchToolkit(a, env) ==
    LET h == Or(a.hosts, PyList(<<getenv(env, "ELASTICSEARCH_HOST", DefaultHost)>>))
        u == Or(a.username, getenv(env, "ELASTICSEARCH_USERNAME", None))
        p == Or(a.password, getenv(env, "ELASTICSEARCH_PASSWORD", None))
    IN [hosts |-> h, username |-> u, password |-> p,
        client |-> Elasticsearch(h, <<u, p>>)]

(* ------------------------ client collaborator ------------------------- *)

Indices == {"docs", "logs"}
Bodies == {[query |-> "match_all"], [title |-> "owl"]}
DocIds == {None, PyStr("1")}

\* response mappings the client may return; a response is any mapping with
\* string keys, so one of them carries a key "error" of its own
Responses == {[hits |-> "0"], [error |-> "shard"]}

\* what one call on the client handle does: return a response or raise
Outcomes == {Return(r) : r \in Responses} \cup {Raise(e) : e \in Exceptions}

(* ---------------------------- operations ------------------------------ *)

\* Each operation yields the calls it issued on the client handle, the
\* severities it logged and its own outcome.  `outcome` is the client's
\* answer to the (single) call in the try block.

\* variant: the handler logs the exception and raises it again
search_reraise(handle, index, query, outcome) ==
    LET call == [fn |-> "search", handle |-> handle, index |-> index, body |-> query]
    IN IF outcome.kind = "return"
       THEN [calls |-> <<call>>, logs |-> <<"debug">>,
             result |-> Return(outcome.value)]
       ELSE IF IsException(outcome.exc)
       THEN [calls |-> <<call>>, logs |-> <<"debug", "error">>,
             result |-> Raise(outcome.exc)]
       ELSE [calls |-> <<call>>, logs |-> <<"debug">>,
             result |-> Raise(outcome.exc)]

\* variant: the index name is a literal instead of the argument
search_fixed_index(handle, index, query, outcome) ==
    LET call == [fn |-> "search", handle |-> handle, index |-> "docs", body |-> query]
    IN IF outcome.kind = "return"
       THEN [calls |-> <<call>>, logs |-> <<"debug">>,
             result |-> Return(outcome.value)]
       ELSE IF IsException(outcome.exc)
       THEN [calls |-> <<call>>, logs |-> <<"debug", "error">>,
             result |-> Return([error |-> str(outcome.exc)])]
       ELSE [calls |-> <<call>>, logs |-> <<"debug">>,
             result |-> Raise(outcome.exc)]

search(handle, index, query, outcome) ==
    LET call == [fn |-> "search", handle |-> handle, index |-> index, body |-> query]
    IN IF outcome.kind = "return"
       THEN [calls |-> <<call>>, logs |-> <<"debug">>,
             result |-> Return(outcome.value)]
       ELSE IF IsException(outcome.exc)
       THEN [calls |-> <<call>>, logs |-> <<"debug", "error">>,
             result |-> Return([error |-> str(outcome.exc)])]
       ELSE [calls |-> <<call>>, logs |-> <<"debug">>,
             result |-> Raise(outcome.exc)]

\* variant: the document id is not forwarded
index_document_noid(handle, index, document, doc_id, outcome) ==
    LET call == [fn |-> "index", handle |-> handle, index |-> index,
                 id |-> None, body |-> document]
    IN IF outcome.kind = "return"
       THEN [calls |-> <<call>>, logs |-> <<"debug">>,
             result |-> Return(outcome.value)]
       ELSE IF IsException(outcome.exc)
       THEN [calls |-> <<call>>, logs |-> <<"debug", "error">>,
             result |-> Return([error |-> str(outcome.exc)])]
       ELSE [calls |-> <<call>>, logs |-> <<"debug">>,
             result |-> Raise(outcome.exc)]

\* variant: a failed call is tried a second time before giving up
index_document_retry(handle, index, document, doc_id, outcome) ==
    LET call == [fn |-> "index", handle |-> handle, index |-> index,
                 id |-> doc_id, body |-> document]
    IN IF outcome.kind = "return"
       THEN [calls |-> <<call>>, logs |-> <<"debug">>,
             result |-> Return(outcome.value)]
       ELSE IF IsException(outcome.exc)
       THEN [calls |-> <<call, call>>, logs |-> <<"debug", "error">>,
             result |-> Return([error |-> str(outcome.exc)])]
       ELSE [calls |-> <<call>>, logs |-> <<"debug">>,
             result |-> Raise(outcome.exc)]

index_document(handle, index, document, doc_id, outcome) ==
    LET call == [fn |-> "index", handle |-> handle, index |-> index,
                 id |-> doc_id, body |-> document]
    IN IF outcome.kind = "return"
       THEN [calls |-> <<call>>, logs |-> <<"debug">>,
             result |-> Return(outcome.value)]
       ELSE IF IsException(outcome.exc)
       THEN [calls |-> <<call>>, logs |-> <<"debug", "error">>,
             result |-> Return([error |-> str(outcome.exc)])]
       ELSE [calls |-> <<call>>, logs |-> <<"debug">>,
             result |-> Raise(outcome.exc)]

\* variant: the failure mapping uses the key "message"
cluster_health_msgkey(handle, outcome) ==
    LET call == [fn |-> "cluster.health", handle |-> handle]
    IN IF outcome.kind = "return"
       THEN [calls |-> <<call>>, logs |-> <<"debug">>,
             result |-> Return(outcome.value)]
       ELSE IF IsException(outcome.exc)
       THEN [calls |-> <<call>>, logs |-> <<"debug", "error">>,
             result |-> Return([message |-> str(outcome.exc)])]
       ELSE [calls |-> <<call>>, logs |-> <<"debug">>,
             result |-> Raise(outcome.exc)]

cluster_health(handle, outcome) ==
    LET call == [fn |-> "cluster.health", handle |-> handle]
    IN IF outcome.kind = "return"
       THEN [calls |-> <<call>>, logs |-> <<"debug">>,
             result |-> Return(outcome.value)]
       ELSE IF IsException(outcome.exc)
       THEN [calls |-> <<call>>, logs |-> <<"debug", "error">>,
             result |-> Return([error |-> str(outcome.exc)])]
       ELSE [calls |-> <<call>>, logs |-> <<"debug">>,
             result |-> Raise(outcome.exc)]

\* variant: the statistics operation issues the health query
cluster_stats_health(handle, outcome) ==
    LET call == [fn |-> "cluster.health", handle |-> handle]
    IN IF outcome.kind = "return"
       THEN [calls |-> <<call>>, logs |-> <<"debug">>,
             result |-> Return(outcome.value)]
       ELSE IF IsException(outcome.exc)
       THEN [calls |-> <<call>>, logs |-> <<"debug", "error">>,
             result |-> Return([error |-> str(outcome.exc)])]
       ELSE [calls |-> <<call>>, logs |-> <<"debug">>,
             result |-> Raise(outcome.exc)]

cluster_stats(handle, outcome) ==
    LET call == [fn |-> "cluster.stats", handle |-> handle]
    IN IF outcome.kind = "return"
       THEN [calls |-> <<call>>, logs |-> <<"debug">>,
             result |-> Return(outcome.value)]
       ELSE IF IsException(outcome.exc)
       THEN [calls |-> <<call>>, logs |-> <<"debug", "error">>,
             result |-> Return([error |-> str(outcome.exc)])]
       ELSE [calls |-> <<call>>, logs |-> <<"debug">>,
             result |-> Raise(outcome.exc)]

\* FunctionTool(self.<method>): a descriptor wrapping the bound method
FunctionTool(method) == [func |-> method]

\* variant: the last operation is missing from the list
get_tools_three ==
    [calls |-> <<>>, logs |-> <<>>,
     result |-> Return(PyList(<<FunctionTool("search"),
                                FunctionTool("index_document"),
                                FunctionTool("cluster_health")>>))]

get_tools ==
    [calls |-> <<>>, logs |-> <<>>,
     result |-> Return(PyList(<<FunctionTool("search"),
                                FunctionTool("index_document"),
                                FunctionTool("cluster_health"),
                                FunctionTool("cluster_stats")>>))]

(* ------------------------------ state --------------------------------- *)

VARIABLES
    environ,    \* os.environ, restricted to the three variables read
    pc,         \* "new": no instance yet; "ready": constructed; "failed"
    hosts,      \* self.hosts
    username,   \* self.username
    password,   \* self.password
    client,     \* self.client
    created,    \* number of client handles constructed for the instance
    last,       \* the latest call of the constructor or of a method:
                \* operation, arguments, client outcome, calls issued on
                \* the client handle, logs, result
    rewrite     \* the latest invocation and the one before it were both
                \* successful index_document calls on the same index and
                \* doc_id with different documents

vars == <<environ, pc, hosts, username, password, client, created, last, rewrite>>

config == <<hosts, username, password, client, created>>

NoCall ==
    [op |-> "none", args |-> None, outcome |-> [kind |-> "none"],
     calls |-> <<>>, logs |-> <<>>, result |-> [kind |-> "none"]]

Invocation(op, a, outcome, r) ==
    [op |-> op, args |-> a, outcome |-> outcome,
     calls |-> r.calls, logs |-> r.logs, result |-> r.result]

Init ==
    /\ environ \in Environs
    /\ pc = "new"
    /\ hosts = None
    /\ username = None
    /\ password = None
    /\ client = None
    /\ created = 0
    /\ last = NoCall
    /\ rewrite = FALSE

\* the process environment changes (os.environ[k] = v, del os.environ[k])
SetEnv ==
    \E k \in EnvKeys :
      \E v \in {None, EnvValue(k)} :
        /\ environ[k] # v
        /\ environ' = [environ EXCEPT ![k] = v]
        /\ UNCHANGED <<pc, hosts, username, password, client, created, last, rewrite>>

\* ElasticsearchToolkit(hosts, username, password) returns an instance
Construct ==
    \E a \in CtorArgs :
        LET self == ElasticsearchToolkit(a, environ)
        IN /\ pc = "new"
           /\ pc' = "ready"
           /\ last' = Invocation("__init__", a, [kind |-> "none"],
                                 [calls |-> <<>>, logs |-> <<>>, result |-> Return(None)])
           /\ hosts' = self.hosts
           /\ username' = self.username
           /\ password' = self.password
           /\ client' = self.client
           /\ created' = created + 1
           /\ UNCHANGED <<environ, rewrite>>

\* the Elasticsearch constructor raises: __init__ propagates the exception
\* and the caller gets no instance
ConstructFails ==
    \E a \in CtorArgs, e \in Exceptions :
        /\ pc = "new"
        /\ pc' = "failed"
        /\ last' = Invocation("__init__", a, Raise(e),
                              [calls |-> <<>>, logs |-> <<>>, result |-> Raise(e)])
        /\ UNCHANGED <<environ, hosts, username, password, client, created, rewrite>>

Search ==
    \E index \in Indices, query \in Bodies, outcome \in Outcomes :
        /\ pc = "ready"
        /\ last' = Invocation("search", [index |-> index, query |-> query], outcome,
                              search(client, index, query, outcome))
        /\ rewrite' = FALSE
        /\ UNCHANGED <<environ, pc, hosts, username, password, client, created>>

IndexDocument ==
    \E index \in Indices, document \in Bodies, doc_id \in DocIds, outcome \in Outcomes :
        /\ pc = "ready"
        /\ last' = Invocation("index_document",
                              [index |-> index, document |-> document, doc_id |-> doc_id],
                              outcome,
                              index_document(client, index, document, doc_id, outcome))
        /\ rewrite' = /\ last.op = "index_document"
                      /\ last.outcome.kind = "return"
                      /\ outcome.kind = "return"
                      /\ last.args.index = index
                      /\ last.args.doc_id = doc_id
                      /\ last.args.document # document
        /\ UNCHANGED <<environ, pc, hosts, username, password, client, created>>

ClusterHealth ==
    \E outcome \in Outcomes :
        /\ pc = "ready"
        /\ last' = Invocation("cluster_health", None, outcome,
                              cluster_health(client, outcome))
        /\ rewrite' = FALSE
        /\ UNCHANGED <<environ, pc, hosts, username, password, client, created>>

ClusterStats ==
    \E outcome \in Outcomes :
        /\ pc = "ready"
        /\ last' = Invocation("cluster_stats", None, outcome,
                              cluster_stats(client, outcome))
        /\ rewrite' = FALSE
        /\ UNCHANGED <<environ, pc, hosts, username, password, client, created>>

GetTools ==
    /\ pc = "ready"
    /\ last' = Invocation("get_tools", None, [kind |-> "none"], get_tools)
    /\ rewrite' = FALSE
    /\ UNCHANGED <<environ, pc, hosts, username, password, client, created>>

Next ==
    \/ SetEnv
    \/ Construct
    \/ ConstructFails
    \/ Search
    \/ IndexDocument
    \/ ClusterHealth
    \/ ClusterStats
    \/ GetTools

Spec == Init /\ [][Next]_vars

TypeOK ==
    /\ pc \in {"new", "ready", "failed"}
    /\ created \in {0, 1}
    /\ rewrite \in BOOLEAN

(* ----------------------------- claims --------------------------------- *)

FourOps == {"search", "index_document", "cluster_health", "cluster_stats"}

Failed(inv) == inv.outcome.kind = "raise"
Succeeded(inv) == inv.outcome.kind = "return"
FailedWithException(inv) == Failed(inv) /\ inv.outcome.exc.cls \in ExceptionClasses
FailedWithBaseOnly(inv) == Failed(inv) /\ inv.outcome.exc.cls \in BaseOnlyClasses

\* the single call an invocation is expected to issue on the client handle
ExpectedCall(inv) ==
    IF inv.op = "search"
    THEN [fn |-> "search", handle |-> client, index |-> inv.args.index,
          body |-> inv.args.query]
    ELSE IF inv.op = "index_document"
    THEN [fn |-> "index", handle |-> client, index |-> inv.args.index,
          id |-> inv.args.doc_id, body |-> inv.args.document]
    ELSE IF inv.op = "cluster_health"
    THEN [fn |-> "cluster.health", handle |-> client]
    ELSE [fn |-> "cluster.stats", handle |-> client]

C2_SearchPassThrough ==
    (last.op = "search" /\ Succeeded(last))
        => /\ last.calls = <<[fn |-> "search", handle |-> client,
                              index |-> last.args.index, body |-> last.args.query]>>
           /\ last.result = Return(last.outcome.value)

C2_Witness ==
    /\ last.op = "search"
    /\ last.args = [index |-> "logs", query |-> [query |-> "match_all"]]
    /\ last.outcome = Return([hits |-> "0"])
    /\ last.result = Return([hits |-> "0"])
    /\ Len(last.calls) = 1
    /\ last.calls[1].index = "logs"

Provided(x) == x \notin {None, PyStr(""), PyList(<<>>)}

\* C4: when the constructor returns an instance, a constructor argument that
\* is provided and non-empty has become the field, whatever the environment
\* holds; when the argument is absent or empty the field has been read from
\* the environment variable (hosts: the one-element list of
\* ELASTICSEARCH_HOST when it is set; username, password: the variable's
\* value, None when it is not set).
C4_ArgumentBeforeEnvironment ==
    [][(pc = "new" /\ pc' = "ready") =>
        /\ last'.op = "__init__"
        /\ Provided(last'.args.hosts) => hosts' = last'.args.hosts
        /\ Provided(last'.args.username) => username' = last'.args.username
        /\ Provided(last'.args.password) => password' = last'.args.password
        /\ (~Provided(last'.args.hosts) /\ environ["ELASTICSEARCH_HOST"] # None)
              => hosts' = PyList(<<environ["ELASTICSEARCH_HOST"]>>)
        /\ ~Provided(last'.args.username)
              => username' = environ["ELASTICSEARCH_USERNAME"]
        /\ ~Provided(last'.args.password)
              => password' = environ["ELASTICSEARCH_PASSWORD"]]_vars

C4_Witness ==
    /\ pc = "ready"
    /\ last.op = "__init__"
    /\ last.args.hosts = PyList(<<PyStr("http://a:9200")>>)
    /\ environ["ELASTICSEARCH_HOST"] = PyStr("http://e:9200")
    /\ hosts = PyList(<<PyStr("http://a:9200")>>)
    /\ last.args.username = PyStr("")
    /\ username = PyStr("envuser")
    /\ last.args.password = None
    /\ password = PyStr("envpass")

NoArguments == [hosts |-> None, username |-> None, password |-> None]

\* C5: constructing without arguments while none of the three environment
\* variables is set gives hosts = ["https://localhost:9200"] and leaves
\* username and password None.
C5_Defaults ==
    [][(/\ pc = "new"
        /\ pc' = "ready"
        /\ last'.op = "__init__"
        /\ last'.args = NoArguments
        /\ \A k \in EnvKeys : environ[k] = None)
       => /\ hosts' = PyList(<<PyStr("https://localhost:9200")>>)
          /\ username' = None
          /\ password' = None]_vars

C5_Witness ==
    /\ pc = "ready"
    /\ last.op = "__init__"
    /\ last.args = NoArguments
    /\ \A k \in EnvKeys : environ[k] = None
    /\ hosts = PyList(<<PyStr("https://localhost:9200")>>)
    /\ username = None
    /\ password = None

\* C6: whatever was invoked before, get_tools returns the four descriptors
\* of search, index_document, cluster_health, cluster_stats in that order,
\* issues no call on the client handle and changes nothing of the instance.
C6_FourTools ==
    /\ [](last.op = "get_tools" =>
            /\ last.result.kind = "return"
            /\ Len(last.result.value.v) = 4
            /\ last.result.value.v[1].func = "search"
            /\ last.result.value.v[2].func = "index_document"
            /\ last.result.value.v[3].func = "cluster_health"
            /\ last.result.value.v[4].func = "cluster_stats"
            /\ last.calls = <<>>)
    /\ [][last'.op = "get_tools" => config' = config]_vars

C6_Witness ==
    /\ last.op = "get_tools"
    /\ Len(last.result.value.v) = 4
    /\ last.calls = <<>>
    /\ environ["ELASTICSEARCH_HOST"] # None
    /\ hosts = PyList(<<PyStr("https://localhost:9200")>>)

\* the invocation forwarded its own arguments and returned the client's
\* response
Forwarded(inv) ==
    /\ inv.calls = <<ExpectedCall(inv)>>
    /\ inv.result = Return(inv.outcome.value)

\* C7: when a successful index_document is followed by another successful
\* index_document on the same index and doc_id with a different document,
\* each of the two forwarded its own (index, doc_id, document) and returned
\* its own client response, and the instance is the same before and after.
C7_NoDeduplication ==
    [][(/\ last.op = "index_document"
        /\ Succeeded(last)
        /\ last'.op = "index_document"
        /\ Succeeded(last')
        /\ last'.args.index = last.args.index
        /\ last'.args.doc_id = last.args.doc_id
        /\ last'.args.document # last.args.document)
       => /\ Forwarded(last)
          /\ Forwarded(last')
          /\ last'.calls[1].body = last'.args.document
          /\ last'.calls[1].id = last'.args.doc_id
          /\ config' = config]_vars

C7_Witness ==
    /\ rewrite
    /\ last.op = "index_document"
    /\ last.args.doc_id = PyStr("1")
    /\ last.result = Return(last.outcome.value)
    /\ last.calls[1].id = PyStr("1")

C10_OneClientHandle ==
    /\ [](/\ pc = "ready" => /\ created = 1
                            /\ client = [hosts |-> hosts,
                                         http_auth |-> <<username, password>>]
          /\ pc # "ready" => created = 0 /\ client = None)
    /\ [][pc = "ready" => (pc' = "ready" /\ config' = config)]_vars

C10_Witness ==
    /\ pc = "ready"
    /\ created = 1
    /\ last.op \in FourOps
    /\ Failed(last)
    /\ username = None
    /\ environ["ELASTICSEARCH_USERNAME"] = PyStr("envuser")
    /\ client.http_auth[1] = None

====
